---------------------------- MODULE Spec2Model ----------------------------
(***************************************************************************)
(* Request builders of the NSO (tail-f) NETCONF extension of ncclient:     *)
(* src/ncclient/operations/third_party/tailf/rpc.py.                       *)
(*                                                                         *)
(* One builder call is one action.  A call ends either by handing its node *)
(* to the dispatch collaborator (self._request) or by raising; the state   *)
(* records the node as it stood at that moment, the error raised and the   *)
(* nodes handed to dispatch.                                               *)
(*                                                                         *)
(* Python values are strings: None, "True"/"False" for booleans, and an    *)
(* Omitted marker for an argument the caller left out (the builder then    *)
(* uses the default of its signature).                                     *)
(***************************************************************************)
EXTENDS Naturals, Sequences, FiniteSets

VARIABLES caps, pc, op, args, node, err, why, sent, tried

vars == <<caps, pc, op, args, node, err, why, sent, tried>>

-----------------------------------------------------------------------------
(* Bounds of the model *)

\* at most this many extension parameters (no_deploy, reconcile,
\* rollback_label, rollback_comment, with_transaction_id) are given a
\* present value in one builder call
MaxExt == 2

\* a node handed directly to add_service_commit_params already has at most
\* this many children
MaxChildren == 2

-----------------------------------------------------------------------------
(* Python values *)

None == "<None>"
Omitted == "<omitted>"
NoErr == "<no error>"

PyBool == {"True", "False"}

\* Python truthiness of a None / bool / str value: `if x:`
Truthy(v) == v \notin {None, "False", ""}

\* the value a parameter is bound to: the caller's, or the signature's default
Default(v, d) == IF v = Omitted THEN d ELSE v

-----------------------------------------------------------------------------
(* Namespaces (ncclient.xml_) *)

BASE_NS_1_0 == "urn:ietf:params:xml:ns:netconf:base:1.0"
TAILF_NS == "TAILF_NS"
TAILF_NS_NCS == "TAILF_NS_NCS"
TAILF_NS_ROLLBACK == "TAILF_NS_ROLLBACK"
TAILF_NS_WTI == "TAILF_NS_WTI"
TAILF_NS_INACTIVE == "TAILF_NS_INACTIVE"
NO_NS == ""

-----------------------------------------------------------------------------
(* Markup builder: elements are [ns, name, text, children] *)

Elem(ns, name, text, children) == [ns |-> ns, name |-> name, text |-> text, children |-> children]

\* no element object exists
NoNode == Elem("<no node>", "<no node>", None, <<>>)

\* parent.append(child)
AddChild(parent, child) == [parent EXCEPT !.children = Append(@, child)]

\* new_ele(tag): a fresh element, qualified with the base namespace
new_ele(tag) == Elem(BASE_NS_1_0, tag, None, <<>>)

\* new_ele_ns(tag, ns)
new_ele_ns(tag, ns) == Elem(ns, tag, None, <<>>)

\* sub_ele(parent, tag): the parent after a new base-namespace child is appended
sub_ele(parent, tag) == AddChild(parent, new_ele(tag))

\* sub_ele_ns(parent, tag, ns): the parent after a new child is appended
sub_ele_ns(parent, tag, ns) == AddChild(parent, new_ele_ns(tag, ns))

\* `<the child just appended>.text = text`
SetText(parent, text) == [parent EXCEPT !.children[Len(parent.children)].text = text]

\* the children of n that are named name in namespace ns
ChildrenNamed(n, ns, name) == SelectSeq(n.children, LAMBDA c : c.ns = ns /\ c.name = name)

HasChild(n, ns, name) == Len(ChildrenNamed(n, ns, name)) > 0

-----------------------------------------------------------------------------
(* Strings a caller passes as datastore, URL or configuration *)

DocConfig == "<config><devices/></config>"
DocConfigQ == "<nc:config xmlns:nc='urn:ietf:params:xml:ns:netconf:base:1.0'><devices/></nc:config>"
DocData == "<data><devices/></data>"
DocSource == "<source><config><devices/></config></source>"
DocSourceNs == "<source><config><devices xmlns='http://tail-f.com/ns/ncs'/></config></source>"
TextConfig == "interfaces { ethernet 1 { enabled; } }"
UrlFile == "file://backup.cfg"

Datastores == {"startup", "running", "candidate"}

\* `"://" in loc`
HasScheme(loc) == loc \in {UrlFile, DocSourceNs}

\* lxml accepts the string as an element name
IsTagName(s) == s \in Datastores \cup {"bogus"}

Devices == Elem(NO_NS, "devices", None, <<>>)

XmlDocs == {DocConfig, DocConfigQ, DocData, DocSource, DocSourceNs}

\* to_ele(x): the element an XML string parses to
to_ele(x) ==
  CASE x = DocConfig -> Elem(NO_NS, "config", None, <<Devices>>)
    [] x = DocConfigQ -> Elem(BASE_NS_1_0, "config", None, <<Devices>>)
    [] x = DocData -> Elem(NO_NS, "data", None, <<Devices>>)
    [] x = DocSource -> Elem(NO_NS, "source", None, <<Elem(NO_NS, "config", None, <<Devices>>)>>)
    [] x = DocSourceNs -> Elem(NO_NS, "source", None, <<Elem(NO_NS, "config", None, <<Elem("http://tail-f.com/ns/ncs", "devices", None, <<>>)>>)>>)
    [] OTHER -> NoNode

\* validated_element(x, tags): the parsed root if its tag is one of tags,
\* an error otherwise
validated_element(x, tags) ==
  IF x \notin XmlDocs
  THEN [ele |-> NoNode, err |-> "MalformedPayload", why |-> "not well-formed"]
  ELSE IF <<to_ele(x).ns, to_ele(x).name>> \notin tags
       THEN [ele |-> NoNode, err |-> "MalformedPayload", why |-> "root tag"]
       ELSE [ele |-> to_ele(x), err |-> NoErr, why |-> NoErr]

\* self._assert(cap): the session's server advertises cap
_assert(session, cap) == cap \in session

\* util.datastore_or_url(wha, loc, self._assert): <wha><url>loc</url></wha>
\* for a URL (needs :url), <wha><loc/></wha> for a name
datastore_or_url(wha, loc, session) ==
  IF HasScheme(loc)
  THEN IF _assert(session, ":url")
       THEN [ele |-> SetText(sub_ele(new_ele(wha), "url"), loc), err |-> NoErr, why |-> NoErr]
       ELSE [ele |-> NoNode, err |-> "UnsupportedCapability", why |-> ":url"]
  ELSE IF IsTagName(loc)
       THEN [ele |-> sub_ele(new_ele(wha), loc), err |-> NoErr, why |-> NoErr]
       ELSE [ele |-> NoNode, err |-> "InvalidArgument", why |-> "invalid tag name"]

-----------------------------------------------------------------------------
(* Outcomes of a builder call *)

\* `raise`: the call ends with the node as built so far; nothing is dispatched
Raise(n, e, w) == [node |-> n, err |-> e, why |-> w, sent |-> <<>>, tried |-> <<>>]

\* self._request(node): the node is handed to the dispatch collaborator
_request(n) == [node |-> n, err |-> NoErr, why |-> NoErr, sent |-> <<n>>, tried |-> <<>>]

-----------------------------------------------------------------------------
(* Option encoders.  Each returns the node after the call. *)

ReconcileModes == {"keep-non-service-config", "discard-non-service-config"}

\* add_service_commit_params(node, no_deploy, reconcile): the node after the
\* call and the error raised, if any
add_service_commit_params(n, no_deploy, reconcile) ==
  LET n1 == IF Truthy(no_deploy) THEN sub_ele_ns(n, "no-deploy", TAILF_NS_NCS) ELSE n
  IN  IF reconcile # None
      THEN IF reconcile \notin ReconcileModes
           THEN [node |-> n1, err |-> "InvalidArgument", why |-> "reconcile"]
           ELSE [node |-> AddChild(n1, sub_ele_ns(new_ele_ns("reconcile", TAILF_NS_NCS), reconcile, TAILF_NS_NCS)),
                 err |-> NoErr, why |-> NoErr]
      ELSE [node |-> n1, err |-> NoErr, why |-> NoErr]

\* add_rollback_meta_data(node, rollback_label, rollback_comment)
add_rollback_meta_data(n, rollback_label, rollback_comment) ==
  LET n1 == IF Truthy(rollback_label)
            THEN SetText(sub_ele_ns(n, "label", TAILF_NS_ROLLBACK), rollback_label)
            ELSE n
  IN  IF Truthy(rollback_comment)
      THEN SetText(sub_ele_ns(n1, "comment", TAILF_NS_ROLLBACK), rollback_comment)
      ELSE n1

\* add_with_transaction_id(node, with_transaction_id)
add_with_transaction_id(n, with_transaction_id) ==
  IF Truthy(with_transaction_id) THEN sub_ele_ns(n, "with-transaction-id", TAILF_NS_WTI) ELSE n

\* add_with_inactive(node, with_inactive)
add_with_inactive(n, with_inactive) ==
  IF Truthy(with_inactive) THEN sub_ele_ns(n, "with-inactive", TAILF_NS_INACTIVE) ELSE n

-----------------------------------------------------------------------------
(* NSO specific RPCs *)

\* what StartTransaction.request binds an omitted parameter to
StartTransaction_defaults == [target |-> "candidate", with_inactive |-> "True"]

\* StartTransaction.request(target, with_inactive)
StartTransaction_request(target, with_inactive) ==
  LET t == Default(target, StartTransaction_defaults.target)
      wi == Default(with_inactive, StartTransaction_defaults.with_inactive)
      n0 == new_ele_ns("start-transaction", TAILF_NS)
      n1 == AddChild(n0, sub_ele_ns(new_ele_ns("target", TAILF_NS), t, TAILF_NS))
  IN  _request(add_with_inactive(n1, wi))

DryRunFormats == {"native", "cli", "xml"}

\* the dry-run part with the reverse marker written whether or not a format
\* is given
PrepareTransaction_dry_run_anyreverse(n, dry_run, dry_run_reverse) ==
  IF dry_run # None /\ dry_run \notin DryRunFormats
  THEN [node |-> n, err |-> "InvalidArgument", why |-> "dry-run"]
  ELSE LET dr0 == IF dry_run # None
                  THEN SetText(sub_ele_ns(new_ele_ns("dry-run", TAILF_NS_NCS), "outformat", TAILF_NS_NCS), dry_run)
                  ELSE new_ele_ns("dry-run", TAILF_NS_NCS)
           dr1 == IF Truthy(dry_run_reverse) THEN sub_ele_ns(dr0, "reverse", TAILF_NS_NCS) ELSE dr0
       IN  [node |-> IF dry_run # None \/ Truthy(dry_run_reverse) THEN AddChild(n, dr1) ELSE n,
            err |-> NoErr, why |-> NoErr]

\* the dry-run part of PrepareTransaction.request: the node after it and the
\* error raised, if any
PrepareTransaction_dry_run(n, dry_run, dry_run_reverse) ==
  IF dry_run # None
  THEN IF dry_run \notin DryRunFormats
       THEN [node |-> n, err |-> "InvalidArgument", why |-> "dry-run"]
       ELSE LET dr0 == SetText(sub_ele_ns(new_ele_ns("dry-run", TAILF_NS_NCS), "outformat", TAILF_NS_NCS), dry_run)
                dr1 == IF Truthy(dry_run_reverse) THEN sub_ele_ns(dr0, "reverse", TAILF_NS_NCS) ELSE dr0
            IN  [node |-> AddChild(n, dr1), err |-> NoErr, why |-> NoErr]
  ELSE [node |-> n, err |-> NoErr, why |-> NoErr]

\* PrepareTransaction.request(dry_run, dry_run_reverse, no_deploy, reconcile,
\* rollback_label, rollback_comment)
PrepareTransaction_request(dry_run, dry_run_reverse, no_deploy, reconcile, rollback_label, rollback_comment) ==
  LET n0 == new_ele_ns("prepare-transaction", TAILF_NS)
      d == PrepareTransaction_dry_run(n0, dry_run, dry_run_reverse)
      s == add_service_commit_params(d.node, no_deploy, reconcile)
  IN  IF d.err # NoErr THEN Raise(d.node, d.err, d.why)
      ELSE IF s.err # NoErr THEN Raise(s.node, s.err, s.why)
      ELSE _request(add_rollback_meta_data(s.node, rollback_label, rollback_comment))

\* CommitTransaction.request(with_transaction_id)
CommitTransaction_request(with_transaction_id) ==
  LET wti == Default(with_transaction_id, None)
  IN  _request(add_with_transaction_id(new_ele_ns("commit-transaction", TAILF_NS), wti))

\* AbortTransaction.request()
AbortTransaction_request == _request(new_ele_ns("abort-transaction", TAILF_NS))

-----------------------------------------------------------------------------
(* Overridden standard RPCs with NSO options *)

\* qualify(tag): the tag in the base namespace
qualify(tag) == <<BASE_NS_1_0, tag>>

\* what EditConfig.request binds an omitted parameter to
EditConfig_defaults == [format |-> "xml", target |-> "candidate", with_inactive |-> "False"]

\* the root tags EditConfig.request accepts for an XML config
EditConfig_config_tags == {<<NO_NS, "config">>, qualify("config")}

\* the config element appended as parsed, its tag left alone
EditConfig_retag_skipped(config_node) == config_node

\* `config_node.tag = ns + "config"`
EditConfig_retag(config_node) == [config_node EXCEPT !.ns = BASE_NS_1_0, !.name = "config"]

\* the default-operation, test-option and error-option part of
\* EditConfig.request: the node after it and the error raised, if any
EditConfig_options(n, session, default_operation, test_option, error_option) ==
  LET n1 == IF default_operation # None
            THEN SetText(sub_ele(n, "default-operation"), default_operation)
            ELSE n
      n2 == IF test_option # None THEN SetText(sub_ele(n1, "test-option"), test_option) ELSE n1
      n3 == IF error_option # None THEN SetText(sub_ele(n2, "error-option"), error_option) ELSE n2
  IN  IF test_option # None /\ ~_assert(session, ":validate")
      THEN [node |-> n1, err |-> "UnsupportedCapability", why |-> ":validate"]
      ELSE IF error_option # None /\ error_option = "rollback-on-error" /\ ~_assert(session, ":rollback-on-error")
           THEN [node |-> n2, err |-> "UnsupportedCapability", why |-> ":rollback-on-error"]
           ELSE [node |-> n3, err |-> NoErr, why |-> NoErr]

\* the config part of EditConfig.request: the node after it and the error
\* raised, if any
EditConfig_config(n, config, format) ==
  LET v == validated_element(config, EditConfig_config_tags)
      n1 == IF format = "xml" THEN AddChild(n, EditConfig_retag(v.ele)) ELSE n
      n2 == IF format = "text"
            THEN AddChild(n1, SetText(sub_ele(new_ele("config-text"), "configuration-text"), config))
            ELSE n1
  IN  IF format = "xml" /\ v.err # NoErr
      THEN [node |-> n, err |-> v.err, why |-> v.why]
      ELSE [node |-> n2, err |-> NoErr, why |-> NoErr]

\* EditConfig.request(config, format, target, default_operation, test_option,
\* error_option, no_deploy, reconcile, rollback_label, rollback_comment,
\* with_transaction_id, with_inactive) on a session
EditConfig_request(session, config, format, target, default_operation, test_option, error_option, no_deploy, reconcile, rollback_label, rollback_comment, with_transaction_id, with_inactive) ==
  LET fmt == Default(format, EditConfig_defaults.format)
      wi == Default(with_inactive, EditConfig_defaults.with_inactive)
      n0 == new_ele("edit-config")
      t == datastore_or_url("target", Default(target, EditConfig_defaults.target), session)
      o == EditConfig_options(AddChild(n0, t.ele), session, default_operation, test_option, error_option)
      s == add_service_commit_params(o.node, no_deploy, reconcile)
      n1 == add_rollback_meta_data(s.node, rollback_label, rollback_comment)
      n2 == add_with_transaction_id(n1, with_transaction_id)
      n3 == add_with_inactive(n2, wi)
      c == EditConfig_config(n3, config, fmt)
  IN  IF t.err # NoErr THEN Raise(n0, t.err, t.why)
      ELSE IF o.err # NoErr THEN Raise(o.node, o.err, o.why)
      ELSE IF s.err # NoErr THEN Raise(s.node, s.err, s.why)
      ELSE IF c.err # NoErr THEN Raise(c.node, c.err, c.why)
      ELSE _request(c.node)

\* what CopyConfig.request binds an omitted parameter to
CopyConfig_defaults == [with_inactive |-> "False"]

\* the root tags CopyConfig.request accepts for an inline source
CopyConfig_source_tags == {<<NO_NS, "source">>, qualify("source")}

\* the try/except with the first error kept when the fallback fails too
CopyConfig_source_first_error(n, source, session) ==
  LET first == datastore_or_url("source", source, session)
      second == validated_element(source, CopyConfig_source_tags)
  IN  IF first.err = NoErr
      THEN [node |-> AddChild(n, first.ele), err |-> NoErr, why |-> NoErr, tried |-> <<"datastore_or_url">>]
      ELSE IF second.err = NoErr
           THEN [node |-> AddChild(n, second.ele), err |-> NoErr, why |-> NoErr,
                 tried |-> <<"datastore_or_url", "validated_element">>]
           ELSE [node |-> n, err |-> first.err, why |-> first.why,
                 tried |-> <<"datastore_or_url", "validated_element">>]

\* the try/except of CopyConfig.request: the node after it, the error that
\* propagates, if any, and the interpretations of the source attempted
CopyConfig_source(n, source, session) ==
  LET first == datastore_or_url("source", source, session)
      second == validated_element(source, CopyConfig_source_tags)
  IN  IF first.err = NoErr
      THEN [node |-> AddChild(n, first.ele), err |-> NoErr, why |-> NoErr, tried |-> <<"datastore_or_url">>]
      ELSE IF second.err = NoErr
           THEN [node |-> AddChild(n, second.ele), err |-> NoErr, why |-> NoErr,
                 tried |-> <<"datastore_or_url", "validated_element">>]
           ELSE [node |-> n, err |-> second.err, why |-> second.why,
                 tried |-> <<"datastore_or_url", "validated_element">>]

\* CopyConfig.request(source, target, no_deploy, reconcile,
\* with_transaction_id, with_inactive) on a session
CopyConfig_request(session, source, target, no_deploy, reconcile, with_transaction_id, with_inactive) ==
  LET wi == Default(with_inactive, CopyConfig_defaults.with_inactive)
      n0 == new_ele("copy-config")
      t == datastore_or_url("target", target, session)
      r == CopyConfig_source(AddChild(n0, t.ele), source, session)
      s == add_service_commit_params(r.node, no_deploy, reconcile)
      n1 == add_with_transaction_id(s.node, with_transaction_id)
      n2 == add_with_inactive(n1, wi)
  IN  IF t.err # NoErr THEN Raise(n0, t.err, t.why)
      ELSE IF r.err # NoErr THEN [Raise(r.node, r.err, r.why) EXCEPT !.tried = r.tried]
      ELSE IF s.err # NoErr THEN [Raise(s.node, s.err, s.why) EXCEPT !.tried = r.tried]
      ELSE [_request(n2) EXCEPT !.tried = r.tried]

\* the conflict test without the persist token: `confirmed and persist_id`
Commit_conflict_confirmed_only(confirmed, persist, persist_id) ==
  Truthy(confirmed) /\ Truthy(persist_id)

\* `(confirmed or persist) and persist_id`
Commit_conflict(confirmed, persist, persist_id) ==
  (Truthy(confirmed) \/ Truthy(persist)) /\ Truthy(persist_id)

\* the confirmed / persist-id part with timeout and persist written outside
\* the `if confirmed:` block
Commit_confirm_dedented(n, session, confirmed, timeout, persist, persist_id) ==
  LET n1 == IF Truthy(confirmed) THEN sub_ele(n, "confirmed") ELSE n
      n2 == IF timeout # None THEN SetText(sub_ele(n1, "confirm-timeout"), timeout) ELSE n1
      n3 == IF persist # None THEN SetText(sub_ele(n2, "persist"), persist) ELSE n2
      n4 == IF Truthy(persist_id) THEN SetText(sub_ele(n3, "persist-id"), persist_id) ELSE n3
  IN  IF (Truthy(confirmed) \/ Truthy(persist)) /\ Truthy(persist_id)
      THEN [node |-> n, err |-> "InvalidArgument", why |-> "persist-id"]
      ELSE IF Truthy(confirmed) /\ ~_assert(session, ":confirmed-commit")
           THEN [node |-> n, err |-> "UnsupportedCapability", why |-> ":confirmed-commit"]
           ELSE [node |-> n4, err |-> NoErr, why |-> NoErr]

\* the confirmed / persist-id part of Commit.request: the node after it and
\* the error raised, if any
Commit_confirm(n, session, confirmed, timeout, persist, persist_id) ==
  LET c0 == sub_ele(n, "confirmed")
      c1 == IF timeout # None THEN SetText(sub_ele(c0, "confirm-timeout"), timeout) ELSE c0
      c2 == IF persist # None THEN SetText(sub_ele(c1, "persist"), persist) ELSE c1
      n1 == IF Truthy(confirmed) THEN c2 ELSE n
      n2 == IF Truthy(persist_id) THEN SetText(sub_ele(n1, "persist-id"), persist_id) ELSE n1
  IN  IF Commit_conflict(confirmed, persist, persist_id)
      THEN [node |-> n, err |-> "InvalidArgument", why |-> "persist-id"]
      ELSE IF Truthy(confirmed) /\ ~_assert(session, ":confirmed-commit")
           THEN [node |-> n, err |-> "UnsupportedCapability", why |-> ":confirmed-commit"]
           ELSE [node |-> n2, err |-> NoErr, why |-> NoErr]

\* Commit.request(confirmed, timeout, persist, persist_id, no_deploy,
\* reconcile, rollback_label, rollback_comment, with_transaction_id) on a
\* session
Commit_request(session, confirmed, timeout, persist, persist_id, no_deploy, reconcile, rollback_label, rollback_comment, with_transaction_id) ==
  LET n0 == new_ele("commit")
      c == Commit_confirm(n0, session, confirmed, timeout, persist, persist_id)
      s == add_service_commit_params(c.node, no_deploy, reconcile)
      n1 == add_rollback_meta_data(s.node, rollback_label, rollback_comment)
  IN  IF c.err # NoErr THEN Raise(c.node, c.err, c.why)
      ELSE IF s.err # NoErr THEN Raise(s.node, s.err, s.why)
      ELSE _request(add_with_transaction_id(n1, with_transaction_id))

-----------------------------------------------------------------------------
(* The values callers pass *)

\* the capabilities the request methods ask the session for (the DEPENDS of
\* Commit, :candidate, is asked for when the Commit object is constructed,
\* before request is called)
Capabilities == {":validate", ":rollback-on-error", ":confirmed-commit", ":url"}

\* the extension parameters of one call, at most MaxExt of them present
ExtPresent(e) ==
  (IF Truthy(e.no_deploy) THEN 1 ELSE 0) + (IF e.reconcile # None THEN 1 ELSE 0)
  + (IF Truthy(e.rollback_label) THEN 1 ELSE 0) + (IF Truthy(e.rollback_comment) THEN 1 ELSE 0)
  + (IF Truthy(e.with_transaction_id) THEN 1 ELSE 0)

ExtParams ==
  {e \in [no_deploy : PyBool, reconcile : {None, "bogus"} \cup ReconcileModes,
          rollback_label : {None, "before-upgrade"}, rollback_comment : {None, "nightly change"},
          with_transaction_id : PyBool] : ExtPresent(e) <= MaxExt}

NoArgs == [none |-> None]

\* the nodes handed directly to add_service_commit_params
ChildPool == {new_ele_ns("no-deploy", TAILF_NS_NCS), new_ele_ns("label", TAILF_NS_ROLLBACK)}

Nodes0 ==
  {Elem(TAILF_NS, "prepare-transaction", None, cs) : cs \in UNION {[1..k -> ChildPool] : k \in 0..MaxChildren}}

-----------------------------------------------------------------------------
(* The state machine: a caller with a session makes one call after another *)

Init ==
  /\ caps \in SUBSET Capabilities
  /\ pc = "idle"
  /\ op = "none"
  /\ args = NoArgs
  /\ node = NoNode
  /\ err = NoErr
  /\ why = NoErr
  /\ sent = <<>>
  /\ tried = <<>>

\* the call of operation o with arguments a ends as r says
Call(o, a, r) ==
  /\ pc' = "done"
  /\ op' = o
  /\ args' = a
  /\ node' = r.node
  /\ err' = r.err
  /\ why' = r.why
  /\ sent' = r.sent
  /\ tried' = r.tried
  /\ UNCHANGED caps

StartTransaction ==
  /\ pc = "idle"
  /\ \E target \in {Omitted, "startup", "running", "candidate", "bogus"}, with_inactive \in PyBool \cup {Omitted} :
    Call("start_transaction", [target |-> target, with_inactive |-> with_inactive],
         StartTransaction_request(target, with_inactive))

PrepareTransaction ==
  /\ pc = "idle"
  /\ \E dry_run \in {None, "bogus"} \cup DryRunFormats, dry_run_reverse \in PyBool, e \in ExtParams :
    /\ e.with_transaction_id = "False"
    /\ Call("prepare_transaction",
            [dry_run |-> dry_run, dry_run_reverse |-> dry_run_reverse, no_deploy |-> e.no_deploy,
             reconcile |-> e.reconcile, rollback_label |-> e.rollback_label,
             rollback_comment |-> e.rollback_comment],
            PrepareTransaction_request(dry_run, dry_run_reverse, e.no_deploy, e.reconcile,
                                       e.rollback_label, e.rollback_comment))

CommitTransaction ==
  /\ pc = "idle"
  /\ \E with_transaction_id \in PyBool \cup {Omitted} :
    Call("commit_transaction", [with_transaction_id |-> with_transaction_id],
         CommitTransaction_request(with_transaction_id))

AbortTransaction ==
  /\ pc = "idle"
  /\ Call("abort_transaction", NoArgs, AbortTransaction_request)

EditConfig ==
  /\ pc = "idle"
  /\ \E config \in {DocConfig, DocConfigQ, DocData, TextConfig}, format \in {"xml", "text"},
     target \in {"running", UrlFile}, default_operation \in {None, "merge", "bogus"},
     test_option \in {None, "test-then-set"},
     error_option \in {None, "stop-on-error", "continue-on-error", "rollback-on-error", "bogus"},
     e \in ExtParams, with_inactive \in PyBool \cup {Omitted} :
    Call("edit_config",
         [config |-> config, format |-> format, target |-> target, default_operation |-> default_operation,
          test_option |-> test_option, error_option |-> error_option, no_deploy |-> e.no_deploy,
          reconcile |-> e.reconcile, rollback_label |-> e.rollback_label,
          rollback_comment |-> e.rollback_comment, with_transaction_id |-> e.with_transaction_id,
          with_inactive |-> with_inactive],
         EditConfig_request(caps, config, format, target, default_operation, test_option, error_option,
                            e.no_deploy, e.reconcile, e.rollback_label, e.rollback_comment,
                            e.with_transaction_id, with_inactive))

CopyConfig ==
  /\ pc = "idle"
  /\ \E source \in {"running", "scratch pad", UrlFile, DocSource, DocSourceNs, DocConfig},
     target \in {"candidate", UrlFile}, e \in ExtParams, with_inactive \in PyBool \cup {Omitted} :
    /\ e.rollback_label = None /\ e.rollback_comment = None
    /\ Call("copy_config",
            [source |-> source, target |-> target, no_deploy |-> e.no_deploy, reconcile |-> e.reconcile,
             with_transaction_id |-> e.with_transaction_id, with_inactive |-> with_inactive],
            CopyConfig_request(caps, source, target, e.no_deploy, e.reconcile, e.with_transaction_id,
                               with_inactive))

Commit ==
  /\ pc = "idle"
  /\ \E confirmed \in PyBool, timeout \in {None, "120"}, persist \in {None, "", "tok-1"},
     persist_id \in {None, "", "tok-1"}, e \in ExtParams :
    Call("commit",
         [confirmed |-> confirmed, timeout |-> timeout, persist |-> persist, persist_id |-> persist_id,
          no_deploy |-> e.no_deploy, reconcile |-> e.reconcile, rollback_label |-> e.rollback_label,
          rollback_comment |-> e.rollback_comment, with_transaction_id |-> e.with_transaction_id],
         Commit_request(caps, confirmed, timeout, persist, persist_id, e.no_deploy, e.reconcile,
                        e.rollback_label, e.rollback_comment, e.with_transaction_id))

\* a direct call of the module-level encoder on a node of the caller's
AddServiceCommitParams ==
  /\ pc = "idle"
  /\ \E n \in Nodes0, no_deploy \in PyBool, reconcile \in {None, "bogus"} \cup ReconcileModes :
    LET r == add_service_commit_params(n, no_deploy, reconcile)
    IN  Call("add_service_commit_params", [node |-> n, no_deploy |-> no_deploy, reconcile |-> reconcile],
             [node |-> r.node, err |-> r.err, why |-> r.why, sent |-> <<>>, tried |-> <<>>])

\* the caller has the reply or the exception; nothing of the call is kept
Return ==
  /\ pc = "done"
  /\ pc' = "idle"
  /\ op' = "none"
  /\ args' = NoArgs
  /\ node' = NoNode
  /\ err' = NoErr
  /\ why' = NoErr
  /\ sent' = <<>>
  /\ tried' = <<>>
  /\ UNCHANGED caps

Next ==
  \/ StartTransaction
  \/ PrepareTransaction
  \/ CommitTransaction
  \/ AbortTransaction
  \/ EditConfig
  \/ CopyConfig
  \/ Commit
  \/ AddServiceCommitParams
  \/ Return

Spec == Init /\ [][Next]_vars

-----------------------------------------------------------------------------
(* Properties *)

Builders ==
  {"start_transaction", "prepare_transaction", "commit_transaction", "abort_transaction",
   "edit_config", "copy_config", "commit"}

ValidationErrors == {"InvalidArgument", "UnsupportedCapability", "MalformedPayload"}

Done(o) == pc = "done" /\ op = o

Dispatched == sent # <<>>

LastChild(n) == n.children[Len(n.children)]

\* C1: whenever a request builder raises a validation error, no request node
\* has been created or given a child, and nothing was handed to dispatch.
C1_ValidationBeforeMutation ==
  (pc = "done" /\ op \in Builders /\ err \in ValidationErrors) => (node = NoNode /\ ~Dispatched)

\* the part of C1 about dispatch alone: a builder that raises a validation
\* error has handed nothing to dispatch
RaiseMeansNotDispatched ==
  (pc = "done" /\ op \in Builders /\ err \in ValidationErrors) => ~Dispatched

\* the element add_service_commit_params writes for a reconcile mode
ReconcileElement(mode) ==
  Elem(TAILF_NS_NCS, "reconcile", None, <<Elem(TAILF_NS_NCS, mode, None, <<>>)>>)

\* C2: add_service_commit_params with a reconcile mode of the enumerated set
\* appends exactly one reconcile element whose single child is named after the
\* mode; with any other non-None value it raises and leaves the node with
\* exactly the children it had, whatever no_deploy is.
C2_ReconcileEncodedOrUntouched ==
  Done("add_service_commit_params") =>
    /\ args.reconcile \in ReconcileModes =>
         /\ err = NoErr
         /\ LastChild(node) = ReconcileElement(args.reconcile)
         /\ Len(ChildrenNamed(node, TAILF_NS_NCS, "reconcile"))
              = Len(ChildrenNamed(args.node, TAILF_NS_NCS, "reconcile")) + 1
    /\ args.reconcile \notin ReconcileModes \cup {None} =>
         /\ err = "InvalidArgument"
         /\ node.children = args.node.children

\* the persist-id rule of Commit applies to the call's arguments, a parameter
\* being set when it has a present (non-None, non-false, non-empty) value
CommitConflictArgs ==
  Truthy(args.persist_id) /\ (Truthy(args.confirmed) \/ Truthy(args.persist))

\* C3: building Commit with persist_id set and confirmed true or persist set
\* raises an invalid-argument error and hands nothing to dispatch; with at
\* most one of the two groups set, the persist-id rule raises no error.
C3_PersistIdConflict ==
  Done("commit") =>
    /\ CommitConflictArgs => (err = "InvalidArgument" /\ why = "persist-id" /\ ~Dispatched)
    /\ ~CommitConflictArgs => why # "persist-id"

\* a commit with a persist token and a persist-id, not confirmed, on a session
\* without :confirmed-commit, is refused
C3_Witness ==
  /\ Done("commit")
  /\ args.confirmed = "False" /\ args.persist = "tok-1" /\ args.persist_id = "tok-1"
  /\ err = "InvalidArgument"
  /\ ":confirmed-commit" \notin caps

\* the children of the dispatched edit-config request named name whose text is text
SentOptions(name, text) ==
  SelectSeq(sent[1].children, LAMBDA c : c.ns = BASE_NS_1_0 /\ c.name = name /\ c.text = text)

\* the capability an edit-config call needs for its target, test_option and
\* error_option is missing from the session
EditConfigCapabilityMissing ==
  \/ args.test_option # None /\ ":validate" \notin caps
  \/ args.error_option = "rollback-on-error" /\ ":rollback-on-error" \notin caps

\* the part of C4 about what is dispatched and which error is raised
EditConfigCapabilityGates ==
  Done("edit_config") =>
    /\ (Dispatched /\ HasChild(sent[1], BASE_NS_1_0, "test-option")) => ":validate" \in caps
    /\ (Dispatched /\ Len(SentOptions("error-option", "rollback-on-error")) > 0)
         => ":rollback-on-error" \in caps
    /\ EditConfigCapabilityMissing => (err = "UnsupportedCapability" /\ ~Dispatched)
    /\ (args.test_option = None /\ args.error_option \in {None, "stop-on-error", "continue-on-error"})
         => why \notin {":validate", ":rollback-on-error"}

\* C4: an edit-config request with a test-option is dispatched only on a
\* session with :validate, one with error-option rollback-on-error only on a
\* session with :rollback-on-error; without the capability the builder fails
\* with an unsupported-capability error raised before node construction and
\* dispatches nothing; stop-on-error and continue-on-error need no capability.
C4_CapabilityBeforeConstruction ==
  /\ EditConfigCapabilityGates
  /\ (Done("edit_config") /\ why \in {":validate", ":rollback-on-error"}) => node = NoNode

\* C5: StartTransaction, EditConfig and CopyConfig built with with_inactive
\* omitted carry the with-inactive marker, and built with with_inactive false
\* do not.
C5_WithInactiveDefault ==
  (pc = "done" /\ op \in {"start_transaction", "edit_config", "copy_config"} /\ Dispatched) =>
    /\ args.with_inactive = Omitted => HasChild(sent[1], TAILF_NS_INACTIVE, "with-inactive")
    /\ args.with_inactive = "False" => ~HasChild(sent[1], TAILF_NS_INACTIVE, "with-inactive")

\* the call has a parameter whose value is outside its enumerated set
OutsideEnumeratedSet ==
  \/ Done("edit_config") /\ args.default_operation \notin {None, "merge", "replace", "none"}
  \/ Done("edit_config")
       /\ args.error_option \notin {None, "stop-on-error", "continue-on-error", "rollback-on-error"}
  \/ Done("start_transaction")
       /\ Default(args.target, StartTransaction_defaults.target) \notin Datastores
  \/ Done("prepare_transaction") /\ args.dry_run \notin DryRunFormats \cup {None}
  \/ (pc = "done" /\ op \in {"prepare_transaction", "edit_config", "copy_config", "commit"})
       /\ args.reconcile \notin ReconcileModes \cup {None}

\* C6: a parameter value outside its enumerated set is rejected with an
\* invalid-argument error before any node is built, and nothing is dispatched.
C6_EnumeratedRejected ==
  OutsideEnumeratedSet => (err = "InvalidArgument" /\ node = NoNode /\ ~Dispatched)

\* the config carriers of an edit-config request: its config and config-text
\* children
ConfigCarriers(n) ==
  SelectSeq(n.children, LAMBDA c : c.ns = BASE_NS_1_0 /\ c.name \in {"config", "config-text"})

\* the format an edit-config call works with
EditFormat == Default(args.format, "xml")

\* the root of the call's config, parsed, is named config, unqualified or in
\* the base namespace
ConfigRooted ==
  /\ args.config \in XmlDocs
  /\ to_ele(args.config).name = "config"
  /\ to_ele(args.config).ns \in {NO_NS, BASE_NS_1_0}

\* the text carrier of a payload
TextCarrier(text) ==
  Elem(BASE_NS_1_0, "config-text", None, <<Elem(BASE_NS_1_0, "configuration-text", text, <<>>)>>)

\* a parsed payload under the base-namespace config root
RetaggedCarrier(x) == Elem(BASE_NS_1_0, "config", to_ele(x).text, to_ele(x).children)

\* what C7 says of every dispatched request: the carrier of a text payload
\* holds the text, the carrier of a structured payload is the payload under
\* the base-namespace config root, and it is the only carrier and the last
\* child
DispatchedCarrier ==
  (Done("edit_config") /\ Dispatched /\ EditFormat \in {"xml", "text"}) =>
    /\ Len(ConfigCarriers(sent[1])) = 1
    /\ LastChild(sent[1]) = ConfigCarriers(sent[1])[1]
    /\ EditFormat = "text" => LastChild(sent[1]) = TextCarrier(args.config)
    /\ EditFormat = "xml" => LastChild(sent[1]) = RetaggedCarrier(args.config)

\* C7 as stated: a dispatched text-format edit-config carries exactly the
\* payload text in config-text/configuration-text; a structured payload whose
\* root is not the protocol's configuration root is re-tagged and appended
\* rather than rejected; the carrier is the only one and comes last.
C7_RetaggedNotRejected ==
  /\ DispatchedCarrier
  /\ (Done("edit_config") /\ EditFormat = "xml" /\ args.config \in XmlDocs /\ ~ConfigRooted)
       => why # "root tag"

\* C7 as amended: a dispatched text-format edit-config carries exactly the
\* payload text; a structured payload whose root is named config, unqualified
\* or in the base namespace, is re-tagged to the base-namespace config root
\* and appended; a structured payload with any other root is rejected with a
\* malformed-payload error and nothing is dispatched; the carrier of a
\* dispatched request is the only one and comes last.
C7_ConfigCarrier ==
  /\ DispatchedCarrier
  /\ (Done("edit_config") /\ Dispatched /\ EditFormat = "xml") => ConfigRooted
  /\ (Done("edit_config") /\ EditFormat = "xml" /\ args.config \in XmlDocs /\ ~ConfigRooted)
       => (~Dispatched /\ err \in ValidationErrors /\ (err = "MalformedPayload" <=> why = "root tag"))

\* an unqualified config root is dispatched under the base namespace, after
\* option elements
C7_Witness ==
  /\ Done("edit_config") /\ Dispatched
  /\ args.format = "xml" /\ args.config = DocConfig
  /\ Len(sent[1].children) > 2
  /\ LastChild(sent[1]).ns = BASE_NS_1_0

\* C8: PrepareTransaction with a dry-run format of {native, cli, xml} builds
\* exactly one dry-run element whose outformat child carries the format, with
\* a reverse child exactly when dry_run_reverse is true; with no format there
\* is no dry-run element and no reverse marker, even when dry_run_reverse is
\* true; with dry_run xml and no reconcile, no-deploy or rollback argument the
\* request holds the dry-run sub-tree alone.
C8_DryRun ==
  (Done("prepare_transaction") /\ Dispatched) =>
    LET dr == ChildrenNamed(sent[1], TAILF_NS_NCS, "dry-run")
        reverse == IF Truthy(args.dry_run_reverse)
                   THEN <<Elem(TAILF_NS_NCS, "reverse", None, <<>>)>> ELSE <<>>
    IN  /\ args.dry_run \in DryRunFormats =>
             /\ Len(dr) = 1
             /\ dr[1].children = <<Elem(TAILF_NS_NCS, "outformat", args.dry_run, <<>>)>> \o reverse
        /\ args.dry_run = None =>
             /\ Len(dr) = 0
             /\ \A i \in 1..Len(sent[1].children) :
                  /\ sent[1].children[i].name # "reverse"
                  /\ \A j \in 1..Len(sent[1].children[i].children) :
                       sent[1].children[i].children[j].name # "reverse"
        /\ (/\ args.dry_run = "xml" /\ ~Truthy(args.no_deploy) /\ args.reconcile = None
            /\ args.rollback_label = None /\ args.rollback_comment = None)
             => sent[1].children = dr

\* the call of the example: dry_run xml and nothing else
C8_Witness ==
  /\ Done("prepare_transaction") /\ Dispatched
  /\ args.dry_run = "xml" /\ args.dry_run_reverse = "False"
  /\ ~Truthy(args.no_deploy) /\ args.reconcile = None
  /\ args.rollback_label = None /\ args.rollback_comment = None
  /\ Len(sent[1].children) = 1

\* the call asks for reverse without a format and is dispatched
C8_WitnessNoFormat ==
  /\ Done("prepare_transaction") /\ Dispatched
  /\ args.dry_run = None /\ args.dry_run_reverse = "True"

\* the two interpretations of the source of the copy-config call
SourceAsDatastore == datastore_or_url("source", args.source, caps)
SourceInline == validated_element(args.source, {<<NO_NS, "source">>, <<BASE_NS_1_0, "source">>})
TargetResolved == datastore_or_url("target", args.target, caps).err = NoErr

\* C9: CopyConfig first interprets the source as a datastore or URL and tries
\* the inline interpretation only if the first attempt fails, with any error,
\* a capability error included; a dispatched request holds the target element
\* followed by exactly one source element; if both interpretations fail the
\* second error propagates and nothing is dispatched.
C9_CopyConfigSource ==
  Done("copy_config") =>
    /\ tried # <<>> => tried[1] = "datastore_or_url"
    /\ (TargetResolved /\ SourceAsDatastore.err = NoErr) => tried = <<"datastore_or_url">>
    /\ (TargetResolved /\ SourceAsDatastore.err # NoErr)
         => tried = <<"datastore_or_url", "validated_element">>
    /\ Dispatched =>
         /\ Len(sent[1].children) >= 2
         /\ sent[1].children[1].name = "target"
         /\ sent[1].children[2].name = "source"
         /\ Cardinality({i \in 1..Len(sent[1].children) : sent[1].children[i].name = "source"}) = 1
         /\ sent[1].children[2] = IF SourceAsDatastore.err = NoErr
                                  THEN SourceAsDatastore.ele ELSE SourceInline.ele
    /\ (TargetResolved /\ SourceAsDatastore.err # NoErr /\ SourceInline.err # NoErr)
         => (err = SourceInline.err /\ why = SourceInline.why /\ ~Dispatched)

\* a URL source on a session without :url that is no inline source either:
\* both interpretations fail
C9_Witness ==
  /\ Done("copy_config")
  /\ args.source = UrlFile /\ ":url" \notin caps /\ args.target = "candidate"
  /\ tried = <<"datastore_or_url", "validated_element">>
  /\ err = "MalformedPayload"

\* the capability error of the first attempt leads to the inline source
C9_WitnessFallback ==
  /\ Done("copy_config") /\ Dispatched
  /\ args.source = DocSourceNs /\ ":url" \notin caps
  /\ tried = <<"datastore_or_url", "validated_element">>

\* C10: in every dispatched commit request a confirm-timeout or persist
\* element comes only with a confirmed element (a timeout or persist token
\* given with confirmed false is not encoded), a confirmed element only on a
\* session with :confirmed-commit, and a persist-id element never with a
\* confirmed or persist element.
C10_CommitRequestShape ==
  (Done("commit") /\ Dispatched) =>
    LET has(name) == HasChild(sent[1], BASE_NS_1_0, name)
    IN  /\ (has("confirm-timeout") \/ has("persist")) => has("confirmed")
        /\ ~Truthy(args.confirmed) => (~has("confirm-timeout") /\ ~has("persist") /\ ~has("confirmed"))
        /\ has("confirmed") => ":confirmed-commit" \in caps
        /\ has("persist-id") => (~has("confirmed") /\ ~has("persist"))

\* a confirmed commit with timeout and persist token is dispatched
C10_Witness ==
  /\ Done("commit") /\ Dispatched
  /\ HasChild(sent[1], BASE_NS_1_0, "confirmed")
  /\ HasChild(sent[1], BASE_NS_1_0, "confirm-timeout")
  /\ HasChild(sent[1], BASE_NS_1_0, "persist")

\* a timeout and a persist token given with confirmed false are dispatched
\* unencoded
C10_WitnessUnconfirmed ==
  /\ Done("commit") /\ Dispatched
  /\ args.confirmed = "False" /\ args.timeout # None /\ args.persist = "tok-1"

=============================================================================
